---------------------------- MODULE Spec2Model ----------------------------
(***************************************************************************)
(* A model of libdft's core API (src/libdft/src/libdft_api.c): the         *)
(* per-thread contexts, the syscall enter/exit handlers with the default   *)
(* tag-cleanup policy, the instruction-descriptor table with its           *)
(* registration API and trace inspection, and the REG-to-VCPU index maps.  *)
(***************************************************************************)
EXTENDS Integers, Sequences, FiniteSets, TLC

(***************************************************************************)
(* Bounds of the model.                                                    *)
(***************************************************************************)
\* number of target threads
NumThreads == 2
\* the modelled address space is 0 .. MemSize-1; address 0 is NULL
MemSize == 3
\* syscall return values range over -1 .. MaxRet
MaxRet == 1
\* number of opcode classes: ins_desc[] has entries 0 .. XED_ICLASS_LAST-1
XED_ICLASS_LAST == 2

(***************************************************************************)
(* Program constants.                                                      *)
(***************************************************************************)
NULL == 0
\* size of syscall_ctx_t.arg[] and syscall_desc_t.map_args[]:
\* SYSCALL_ARG0 .. SYSCALL_ARG5
SYSCALL_ARG_NUM == 6

Threads == 1 .. NumThreads
\* addresses calloc() may hand out for a thread_ctx_t
HeapAddrs == 1 .. NumThreads
Addr == 0 .. (MemSize - 1)
ArgIdx == 0 .. (SYSCALL_ARG_NUM - 1)
RetVals == (0 - 1) .. MaxRet

(***************************************************************************)
(* The syscall descriptor table (extern syscall_desc[SYSCALL_MAX]).  The   *)
(* table is defined outside this file; the model uses a small table with   *)
(* one entry per combination of features the handlers branch on, and one   *)
(* more per argument count (0 to 6) not met among them.  pre and post are  *)
(* function pointers: NULL or the identity of a callback.                  *)
(***************************************************************************)
Desc(n, sa, ra, m, pr, po) ==
    [nargs |-> n, save_args |-> sa, retval_args |-> ra,
     map_args |-> [i \in ArgIdx |-> m[i + 1]], pre |-> pr, post |-> po]

\* one descriptor per combination of features
branch_desc ==
    << \* 0: three arguments, argument 1 is written back (2 bytes)
       Desc(3, 0, 1, <<0, 2, 0, 0, 0, 0>>, NULL, NULL),
       \* 1: two arguments, pre-callback; map_args[2] lies beyond nargs
       Desc(2, 1, 0, <<1, 0, 1, 0, 0, 0>>, 1, NULL),
       \* 2: post-callback registered, write-back lengths present
       Desc(2, 1, 1, <<2, 1, 0, 0, 0, 0>>, NULL, 2),
       \* 3: neither capture flag, callbacks and write-back lengths present
       Desc(2, 0, 0, <<1, 1, 0, 0, 0, 0>>, 1, 2),
       \* 4: six arguments, the last one written back
       Desc(6, 1, 0, <<0, 0, 0, 0, 0, 1>>, NULL, NULL),
       \* 5: no arguments
       Desc(0, 0, 1, <<0, 0, 0, 0, 0, 0>>, NULL, NULL) >>

\* the remaining argument counts
count_desc ==
    << \* 6, 7, 8: one, four and five arguments, the last one written back
       Desc(1, 1, 0, <<1, 0, 0, 0, 0, 0>>, NULL, NULL),
       Desc(4, 0, 1, <<0, 0, 0, 1, 0, 0>>, NULL, NULL),
       Desc(5, 1, 1, <<0, 0, 0, 0, 2, 0>>, NULL, NULL) >>

syscall_desc == branch_desc \o count_desc

SYSCALL_MAX == Len(syscall_desc)

\* syscall_desc[nr] with the C array's 0-based index
SysDesc(nr) == syscall_desc[nr + 1]

(***************************************************************************)
(* State.                                                                  *)
(***************************************************************************)
VARIABLES
    tstate,     \* per thread: "new", "live" (started) or "done" (finished)
    slot,       \* per thread: the value of the spilled register thread_ctx_ptr
    allocated,  \* the heap blocks calloc() handed out and free() did not get back
    heap,       \* per heap block: the thread_ctx_t stored there (its syscall_ctx)
    pc,         \* per thread: "idle", or "insys" between syscall enter and exit
    tagmap,     \* the shadow memory: one tag per byte of the address space
    detached,   \* PIN_Detach() was called: no notification is delivered any more
    ev,         \* what the last handler did: the calls it made, in order
    entered,    \* per thread: the number and arguments in its context right
                \* after its latest sysenter_save
    ins_desc,   \* the instruction descriptors, one per opcode class
    ins_ev,     \* the last call on the descriptors: arguments, result, calls made
    reg_ev,     \* the last REG-to-VCPU lookup: mapper, register, result
    pctx,       \* the EFLAGS register of the physical processor state
    exited,     \* PIN_ExitApplication() was called: the target is terminated
    exc_ev,     \* the last fault delivered to excpt_hdlr and its verdict
    thread_ctx_ptr, \* the tool register claimed for the context pointer
    hooks,      \* the callbacks registered with Pin, in registration order
    init_ev     \* the last libdft_init call: its inputs, calls and result

sysvars == <<tstate, slot, allocated, heap, pc, tagmap, detached, ev, entered>>
insvars == <<ins_desc, ins_ev>>
regvars == <<reg_ev>>
excvars == <<pctx, exited, exc_ev>>
initvars == <<thread_ctx_ptr, hooks, init_ev>>
vars == <<sysvars, insvars, regvars, excvars, initvars>>

\* a reference to the CONTEXT a notification was delivered with
NoAux == [tid |-> 0, at |-> "null"]
AuxOf(t, phase) == [tid |-> t, at |-> phase]

\* a thread_ctx_t as calloc() returns it: all zero
ZeroCtx ==
    [nr |-> 0, arg |-> [i \in ArgIdx |-> 0], ret |-> 0, aux |-> NoAux]

\* the inputs of a notification: the raw syscall number and argument words
\* (enter), the raw return value (exit)
NoInput == [nr |-> 0, raw |-> [i \in ArgIdx |-> 0], ret |-> 0]
EnterInput(syscall_nr, raw) == [NoInput EXCEPT !.nr = syscall_nr, !.raw = raw]
ExitInput(ret) == [NoInput EXCEPT !.ret = ret]

\* what a thread's latest sysenter_save left in its context: nothing yet
NoEntered == [nr |-> 0, arg |-> [i \in ArgIdx |-> 0], wrote |-> {}]

\* the indices at which a handler read map_args[] and arg[]: none
NoReads == [map_args |-> {}, arg |-> {}]

EventWith(op, t, inp, prec, postc, clr, rd) ==
    [op |-> op, tid |-> t, inp |-> inp,
     pre |-> prec, post |-> postc, clrn |-> clr, reads |-> rd]

Event(op, t, inp, prec, postc, clr) ==
    EventWith(op, t, inp, prec, postc, clr, NoReads)

\* an ins_desc_t after memset(ins_desc, 0, sizeof(ins_desc))
ZeroInsDesc == [pre |-> NULL, post |-> NULL, dflact |-> 0]
Iclass == 0 .. (XED_ICLASS_LAST - 1)

\* the descriptor pointers start at 1: NULL, or &ins_desc[k]
DescPtr(k) == k + 1
DescIdx(desc) == desc - 1
DescPtrs == { DescPtr(k) : k \in Iclass } \cup {NULL}

\* whether the call op(desc) clears a hook that the call just before it
\* registered on the same descriptor, in a slot that was empty until then
ClearsFreshHook(last, op, desc) ==
    /\ desc # NULL
    /\ last.desc = desc
    /\ last.ret = 0
    /\ \/ /\ op = "ins_clr_pre"
          /\ last.op = "ins_set_pre"
          /\ last.before[DescIdx(desc)].pre = NULL
       \/ /\ op = "ins_clr_post"
          /\ last.op = "ins_set_post"
          /\ last.before[DescIdx(desc)].post = NULL

InsEventAfter(last, op, desc, arg, ret, before, trace, calls) ==
    [op |-> op, desc |-> desc, arg |-> arg, ret |-> ret,
     before |-> before, trace |-> trace, calls |-> calls,
     roundtrip |-> ClearsFreshHook(last, op, desc)]

InsEvent(op, desc, arg, ret, before, trace, calls) ==
    InsEventAfter(ins_ev, op, desc, arg, ret, before, trace, calls)

RegEvent(fn, reg, out) == [fn |-> fn, reg |-> reg, out |-> out]

\* an EXCEPTION_INFO: the exception code and, when Pin knows it, the address
\* of the faulting access
ExceptInfo(code, has_addr, addr) ==
    [code |-> code, has_addr |-> has_addr, addr |-> addr]
NoFault == ExceptInfo("none", FALSE, 0)

Init ==
    /\ tstate = [t \in Threads |-> "new"]
    /\ slot = [t \in Threads |-> NULL]
    /\ allocated = {}
    /\ heap = [p \in HeapAddrs |-> ZeroCtx]
    /\ pc = [t \in Threads |-> "idle"]
    /\ tagmap = [a \in Addr |-> 0]
    /\ detached = FALSE
    /\ ev = Event("none", 0, NoInput, <<>>, <<>>, <<>>)
    /\ entered = [t \in Threads |-> NoEntered]
    /\ ins_desc = [k \in Iclass |-> ZeroInsDesc]
    /\ ins_ev = [op |-> "none", desc |-> NULL, arg |-> 0, ret |-> 0,
                 before |-> [k \in Iclass |-> ZeroInsDesc],
                 trace |-> <<>>, calls |-> <<>>, roundtrip |-> FALSE]
    /\ reg_ev = RegEvent("none", 0, 0)
    /\ pctx = 0
    /\ exited = FALSE
    /\ exc_ev = [op |-> "none", info |-> NoFault, verdict |-> "none"]
    /\ thread_ctx_ptr = "REG_INVALID_"
    /\ hooks = <<>>
    /\ init_ev = [op |-> "none", claimed |-> "REG_INVALID_", tagmap_ret |-> 0,
                  calls |-> <<>>, ret |-> 0]

(***************************************************************************)
(* Collaborators outside this file.                                        *)
(***************************************************************************)
\* tagmap_clrn(addr, num): untag num bytes starting at addr
tagmap_clrn(tm, addr, num) ==
    [a \in Addr |-> IF addr <= a /\ a < addr + num THEN 0 ELSE tm[a]]

\* the tool (an instruction handler or a syscall callback) tags byte a
tagmap_setb(a) ==
    /\ ~detached
    /\ tagmap[a] = 0
    /\ tagmap' = [tagmap EXCEPT ![a] = 1]
    /\ ev' = Event("tagmap_setb", 0, NoInput, <<>>, <<>>, <<>>)
    /\ UNCHANGED <<tstate, slot, allocated, heap, pc, detached, entered,
                   insvars, regvars, excvars, initvars>>

\* the comparison "syscall_ctx.ret < 0" on the stored return value
RetFailed(ret) == ret < 0

(***************************************************************************)
(* thread_alloc / thread_free                                              *)
(***************************************************************************)
\* thread_alloc storing a block that another thread's context may still
\* live in
thread_alloc_InUseBlock(t, tctx) ==
    /\ ~detached
    /\ tstate[t] = "new"
    /\ tctx \in HeapAddrs \cup {NULL}
    /\ tstate' = [tstate EXCEPT ![t] = "live"]
    /\ IF tctx = NULL
       THEN /\ detached' = TRUE
            /\ UNCHANGED <<allocated, heap>>
       ELSE /\ allocated' = allocated \cup {tctx}
            /\ heap' = [heap EXCEPT ![tctx] = ZeroCtx]
            /\ detached' = detached
    /\ slot' = [slot EXCEPT ![t] = tctx]
    /\ ev' = Event("thread_alloc", t, NoInput, <<>>, <<>>, <<>>)
    /\ UNCHANGED <<pc, tagmap, entered, insvars, regvars, excvars, initvars>>

\* thread_alloc going on without libdft_die() when calloc() failed
thread_alloc_NoDie(t, tctx) ==
    /\ ~detached
    /\ tstate[t] = "new"
    /\ tctx \in (HeapAddrs \ allocated) \cup {NULL}
    /\ tstate' = [tstate EXCEPT ![t] = "live"]
    /\ IF tctx = NULL
       THEN UNCHANGED <<allocated, heap>>
       ELSE /\ allocated' = allocated \cup {tctx}
            /\ heap' = [heap EXCEPT ![tctx] = ZeroCtx]
    /\ detached' = detached
    /\ slot' = [slot EXCEPT ![t] = tctx]
    /\ ev' = Event("thread_alloc", t, NoInput, <<>>, <<>>, <<>>)
    /\ UNCHANGED <<pc, tagmap, entered, insvars, regvars, excvars, initvars>>

\* tctx is what calloc() returned: a fresh zeroed block, or NULL.  On NULL
\* libdft_die() detaches Pin and returns; either way the handler then saves
\* tctx to the spilled register.
thread_alloc(t, tctx) ==
    /\ ~detached
    /\ tstate[t] = "new"
    /\ tctx \in (HeapAddrs \ allocated) \cup {NULL}
    /\ tstate' = [tstate EXCEPT ![t] = "live"]
    /\ IF tctx = NULL
       THEN /\ detached' = TRUE
            /\ UNCHANGED <<allocated, heap>>
       ELSE /\ allocated' = allocated \cup {tctx}
            /\ heap' = [heap EXCEPT ![tctx] = ZeroCtx]
            /\ detached' = detached
    /\ slot' = [slot EXCEPT ![t] = tctx]
    /\ ev' = Event("thread_alloc", t, NoInput, <<>>, <<>>, <<>>)
    /\ UNCHANGED <<pc, tagmap, entered, insvars, regvars, excvars, initvars>>

\* thread_free leaving the block allocated
thread_free_NoRelease(t) ==
    /\ ~detached
    /\ tstate[t] = "live"
    /\ tstate' = [tstate EXCEPT ![t] = "done"]
    /\ allocated' = allocated
    /\ pc' = [pc EXCEPT ![t] = "idle"]
    /\ entered' = [entered EXCEPT ![t] = NoEntered]
    /\ ev' = Event("thread_free", t, NoInput, <<>>, <<>>, <<>>)
    /\ UNCHANGED <<slot, heap, tagmap, detached,
                   insvars, regvars, excvars, initvars>>

\* free() of the block the slot addresses (of nothing, for a NULL slot); the
\* block keeps its bytes and the slot keeps the address.  A thread may finish
\* inside a syscall that does not return: that syscall is over with the thread.
thread_free(t) ==
    /\ ~detached
    /\ tstate[t] = "live"
    /\ tstate' = [tstate EXCEPT ![t] = "done"]
    /\ allocated' = allocated \ {slot[t]}
    /\ pc' = [pc EXCEPT ![t] = "idle"]
    /\ entered' = [entered EXCEPT ![t] = NoEntered]
    /\ ev' = Event("thread_free", t, NoInput, <<>>, <<>>, <<>>)
    /\ UNCHANGED <<slot, heap, tagmap, detached,
                   insvars, regvars, excvars, initvars>>

(***************************************************************************)
(* sysenter_save                                                           *)
(***************************************************************************)
\* SavedSlots with a break after every case of the switch
SavedSlots_NoFallthrough(nargs) ==
    IF nargs \in 1 .. SYSCALL_ARG_NUM THEN {nargs - 1} ELSE {}

\* the slots of arg[] the switch on nargs assigns: case n assigns slot n-1
\* and falls through to case 1; the default case assigns none
SavedSlots(nargs) ==
    IF nargs \in 1 .. SYSCALL_ARG_NUM THEN { i \in ArgIdx : i < nargs } ELSE {}

\* SaveArgs zeroing the slots the switch does not assign
SaveArgs_ZeroesRest(arg, nargs, raw) ==
    [i \in ArgIdx |-> IF i \in SavedSlots(nargs) THEN raw[i] ELSE 0]

\* arg[] after the switch
SaveArgs(arg, nargs, raw) ==
    [i \in ArgIdx |-> IF i \in SavedSlots(nargs) THEN raw[i] ELSE arg[i]]

\* the slots of arg[] sysenter_save assigns for syscall number syscall_nr
EnterWrites(syscall_nr) ==
    IF /\ syscall_nr < SYSCALL_MAX
       /\ SysDesc(syscall_nr).save_args = 1 \/ SysDesc(syscall_nr).retval_args = 1
    THEN SavedSlots(SysDesc(syscall_nr).nargs)
    ELSE {}

\* EnterCtx with the unknown-syscall branch taking the processor-state
\* snapshot before it returns
EnterCtx_UnknownSnapshots(c, t, syscall_nr, raw) ==
    IF syscall_nr >= SYSCALL_MAX
    THEN [c EXCEPT !.nr = 0 - 1, !.aux = AuxOf(t, "enter")]
    ELSE IF SysDesc(syscall_nr).save_args = 1
            \/ SysDesc(syscall_nr).retval_args = 1
         THEN [c EXCEPT !.nr = syscall_nr,
                        !.arg = SaveArgs(c.arg, SysDesc(syscall_nr).nargs, raw),
                        !.aux = AuxOf(t, "enter")]
         ELSE [c EXCEPT !.nr = syscall_nr]

\* the syscall context after sysenter_save for syscall number syscall_nr
EnterCtx(c, t, syscall_nr, raw) ==
    IF syscall_nr >= SYSCALL_MAX
    THEN [c EXCEPT !.nr = 0 - 1]
    ELSE IF SysDesc(syscall_nr).save_args = 1
            \/ SysDesc(syscall_nr).retval_args = 1
         THEN [c EXCEPT !.nr = syscall_nr,
                        !.arg = SaveArgs(c.arg, SysDesc(syscall_nr).nargs, raw),
                        !.aux = AuxOf(t, "enter")]
         ELSE [c EXCEPT !.nr = syscall_nr]

\* EnterPreCalls calling a registered pre-callback whatever the flags say
EnterPreCalls_NoFlagTest(c, t, syscall_nr, raw) ==
    IF /\ syscall_nr < SYSCALL_MAX
       /\ SysDesc(syscall_nr).pre # NULL
    THEN << [fn |-> SysDesc(syscall_nr).pre,
             ctx |-> EnterCtx(c, t, syscall_nr, raw)] >>
    ELSE <<>>

\* the pre-callback invocations of sysenter_save, each with the context it sees
EnterPreCalls(c, t, syscall_nr, raw) ==
    IF /\ syscall_nr < SYSCALL_MAX
       /\ SysDesc(syscall_nr).save_args = 1 \/ SysDesc(syscall_nr).retval_args = 1
       /\ SysDesc(syscall_nr).pre # NULL
    THEN << [fn |-> SysDesc(syscall_nr).pre,
             ctx |-> EnterCtx(c, t, syscall_nr, raw)] >>
    ELSE <<>>

\* sysenter_save keeping the syscall context in one place for all threads:
\* the context of the live thread with the lowest id
sysenter_save_SharedCtx(t, syscall_nr, raw) ==
    LET first == CHOOSE u \in Threads :
                    /\ tstate[u] = "live"
                    /\ \A v \in Threads : tstate[v] = "live" => u <= v
    IN  /\ ~detached
        /\ tstate[t] = "live"
        /\ pc[t] = "idle"
        /\ pc' = [pc EXCEPT ![t] = "insys"]
        /\ heap' = [heap EXCEPT ![slot[first]] =
                        EnterCtx(heap[slot[first]], t, syscall_nr, raw)]
        /\ ev' = Event("sysenter_save", t, EnterInput(syscall_nr, raw),
                       EnterPreCalls(heap[slot[first]], t, syscall_nr, raw),
                       <<>>, <<>>)
        /\ entered' = [entered EXCEPT ![t] =
                          [nr |-> EnterCtx(heap[slot[first]], t, syscall_nr, raw).nr,
                           arg |-> EnterCtx(heap[slot[first]], t, syscall_nr, raw).arg,
                           wrote |-> EnterWrites(syscall_nr)]]
        /\ UNCHANGED <<tstate, slot, allocated, tagmap, detached,
                       insvars, regvars, excvars, initvars>>

sysenter_save(t, syscall_nr, raw) ==
    /\ ~detached
    /\ tstate[t] = "live"
    /\ pc[t] = "idle"
    /\ pc' = [pc EXCEPT ![t] = "insys"]
    /\ heap' = [heap EXCEPT ![slot[t]] = EnterCtx(heap[slot[t]], t, syscall_nr, raw)]
    /\ ev' = Event("sysenter_save", t, EnterInput(syscall_nr, raw),
                   EnterPreCalls(heap[slot[t]], t, syscall_nr, raw), <<>>, <<>>)
    /\ entered' = [entered EXCEPT ![t] =
                        [nr |-> EnterCtx(heap[slot[t]], t, syscall_nr, raw).nr,
                         arg |-> EnterCtx(heap[slot[t]], t, syscall_nr, raw).arg,
                         wrote |-> EnterWrites(syscall_nr)]]
    /\ UNCHANGED <<tstate, slot, allocated, tagmap, detached,
                   insvars, regvars, excvars, initvars>>

(***************************************************************************)
(* sysexit_save                                                            *)
(***************************************************************************)
\* ExitCaptures without the test of the two flags
ExitCaptures_NoFlagTest(c) == c.nr >= 0

\* whether sysexit_save enters the capture block for the stored number
ExitCaptures(c) ==
    /\ c.nr >= 0
    /\ SysDesc(c.nr).save_args = 1 \/ SysDesc(c.nr).retval_args = 1

\* the syscall context after sysexit_save
ExitCtx(c, t, ret) ==
    IF ExitCaptures(c)
    THEN [c EXCEPT !.ret = ret, !.aux = AuxOf(t, "exit")]
    ELSE c

\* the post-callback invocations of sysexit_save
ExitPostCalls(c, t, ret) ==
    IF ExitCaptures(c) /\ SysDesc(c.nr).post # NULL
    THEN << [fn |-> SysDesc(c.nr).post, ctx |-> ExitCtx(c, t, ret)] >>
    ELSE <<>>

\* ClrnLoop running over the whole map_args[] instead of the first nargs entries
RECURSIVE ClrnLoop_WholeMap(_, _, _)
ClrnLoop_WholeMap(d, arg, i) ==
    IF i >= SYSCALL_ARG_NUM
    THEN <<>>
    ELSE (IF d.map_args[i] > 0 /\ arg[i] # NULL
          THEN << <<arg[i], d.map_args[i]>> >>
          ELSE <<>>) \o ClrnLoop_WholeMap(d, arg, i + 1)

\* the loop over the arguments map, from index i on: the tagmap_clrn calls
RECURSIVE ClrnLoop(_, _, _)
ClrnLoop(d, arg, i) ==
    IF i >= d.nargs
    THEN <<>>
    ELSE (IF d.map_args[i] > 0 /\ arg[i] # NULL
          THEN << <<arg[i], d.map_args[i]>> >>
          ELSE <<>>) \o ClrnLoop(d, arg, i + 1)

\* ExitClrnCalls without the "syscall failed" test
ExitClrnCalls_NoRetTest(c, ret) ==
    IF /\ ExitCaptures(c)
       /\ SysDesc(c.nr).post = NULL
    THEN ClrnLoop(SysDesc(c.nr), c.arg, 0)
    ELSE <<>>

\* ExitClrnCalls with the default handling run after the post-callback too
ExitClrnCalls_AfterPost(c, ret) ==
    IF /\ ExitCaptures(c)
       /\ ~RetFailed(ret)
    THEN ClrnLoop(SysDesc(c.nr), c.arg, 0)
    ELSE <<>>

\* the tagmap_clrn calls of sysexit_save (the default post-syscall handling)
ExitClrnCalls(c, ret) ==
    IF /\ ExitCaptures(c)
       /\ SysDesc(c.nr).post = NULL
       /\ ~RetFailed(ret)
    THEN ClrnLoop(SysDesc(c.nr), c.arg, 0)
    ELSE <<>>

\* the indices at which the loop over the arguments map reads map_args[]
\* (every i below nargs) and arg[] (those of them with map_args[i] > 0)
ExitReads(c, ret) ==
    IF /\ ExitCaptures(c)
       /\ SysDesc(c.nr).post = NULL
       /\ ~RetFailed(ret)
    THEN [map_args |-> 0 .. (SysDesc(c.nr).nargs - 1),
          arg |-> { i \in 0 .. (SysDesc(c.nr).nargs - 1) :
                        SysDesc(c.nr).map_args[i] > 0 }]
    ELSE NoReads

\* the shadow memory after a sequence of tagmap_clrn calls
RECURSIVE ApplyClrn(_, _)
ApplyClrn(tm, calls) ==
    IF calls = <<>>
    THEN tm
    ELSE ApplyClrn(tagmap_clrn(tm, Head(calls)[1], Head(calls)[2]), Tail(calls))

sysexit_save(t, ret) ==
    /\ ~detached
    /\ tstate[t] = "live"
    /\ pc[t] = "insys"
    /\ pc' = [pc EXCEPT ![t] = "idle"]
    /\ heap' = [heap EXCEPT ![slot[t]] = ExitCtx(heap[slot[t]], t, ret)]
    /\ tagmap' = ApplyClrn(tagmap, ExitClrnCalls(heap[slot[t]], ret))
    /\ ev' = EventWith("sysexit_save", t, ExitInput(ret), <<>>,
                       ExitPostCalls(heap[slot[t]], t, ret),
                       ExitClrnCalls(heap[slot[t]], ret),
                       ExitReads(heap[slot[t]], ret))
    /\ UNCHANGED <<tstate, slot, allocated, detached, entered,
                   insvars, regvars, excvars, initvars>>

(***************************************************************************)
(* Inputs of the syscall notifications.                                    *)
(***************************************************************************)
\* raw argument words of a syscall: six consecutive addresses (mod MemSize)
RawArgs == { [i \in ArgIdx |-> (b + i) % MemSize] : b \in 1 .. (MemSize - 1) }
\* the argument words of thread t: non-null addresses, another sequence for
\* each thread
ThreadRaw(t) == [i \in ArgIdx |-> ((t + i - 1) % (MemSize - 1)) + 1]
\* the bytes the tool tags: the buffers the first two threads pass
ThreadBufs == { ThreadRaw(1)[1], ThreadRaw(2)[1] }

\* the syscall numbers of branch_desc and one unknown number
SyscallNrs == (0 .. (Len(branch_desc) - 1)) \cup {SYSCALL_MAX}

(***************************************************************************)
(* One thread, every syscall of branch_desc, every input.                   *)
(***************************************************************************)
Next ==
    \/ \E tctx \in {1, NULL} : thread_alloc(1, tctx)
    \/ thread_free(1)
    \/ \E nr \in SyscallNrs, raw \in RawArgs : sysenter_save(1, nr, raw)
    \/ \E ret \in RetVals : sysexit_save(1, ret)
    \/ \E a \in Addr : tagmap_setb(a)

Spec == Init /\ [][Next]_vars

(***************************************************************************)
(* One thread issuing the syscalls that take the default exit policy, one  *)
(* for every argument count, with two sequences of argument words.         *)
(***************************************************************************)
DefaultPolicyNrs ==
    { nr \in 0 .. (SYSCALL_MAX - 1) :
        /\ SysDesc(nr).save_args = 1 \/ SysDesc(nr).retval_args = 1
        /\ SysDesc(nr).post = NULL }

NextArgs ==
    \/ thread_alloc(1, 1)
    \/ \E nr \in DefaultPolicyNrs, raw \in {ThreadRaw(1), ThreadRaw(2)} :
            sysenter_save(1, nr, raw)
    \/ \E ret \in RetVals : sysexit_save(1, ret)

SpecArgs == Init /\ [][NextArgs]_vars

(***************************************************************************)
(* Several threads, interleaved; each thread issues syscall 0 or an        *)
(* unknown syscall, with argument words of its own.                        *)
(***************************************************************************)
NextThr ==
    \/ \E t \in Threads, tctx \in HeapAddrs \cup {NULL} : thread_alloc(t, tctx)
    \/ \E t \in Threads : thread_free(t)
    \/ \E t \in Threads, nr \in {0, SYSCALL_MAX} :
            sysenter_save(t, nr, ThreadRaw(t))
    \/ \E t \in Threads : sysexit_save(t, 0)
    \/ \E a \in ThreadBufs : tagmap_setb(a)

SpecThr == Init /\ [][NextThr]_vars

(***************************************************************************)
(* The instruction descriptors: registration API and trace_inspect.        *)
(***************************************************************************)
\* the values of the default-action flag
INSDFL_ENABLE == 0
INSDFL_DISABLE == 1

ins_set_pre(desc, pre) ==
    /\ IF desc = NULL \/ pre = NULL
       THEN /\ ins_desc' = ins_desc
            /\ ins_ev' = InsEvent("ins_set_pre", desc, pre, 1, ins_desc, <<>>, <<>>)
       ELSE /\ ins_desc' = [ins_desc EXCEPT ![DescIdx(desc)].pre = pre]
            /\ ins_ev' = InsEvent("ins_set_pre", desc, pre, 0, ins_desc, <<>>, <<>>)
    /\ UNCHANGED <<sysvars, regvars, excvars, initvars>>

\* ins_set_post without the test of the callback pointer
ins_set_post_NoCallbackTest(desc, post) ==
    /\ IF desc = NULL
       THEN /\ ins_desc' = ins_desc
            /\ ins_ev' = InsEvent("ins_set_post", desc, post, 1, ins_desc, <<>>, <<>>)
       ELSE /\ ins_desc' = [ins_desc EXCEPT ![DescIdx(desc)].post = post]
            /\ ins_ev' = InsEvent("ins_set_post", desc, post, 0, ins_desc, <<>>, <<>>)
    /\ UNCHANGED <<sysvars, regvars, excvars, initvars>>

ins_set_post(desc, post) ==
    /\ IF desc = NULL \/ post = NULL
       THEN /\ ins_desc' = ins_desc
            /\ ins_ev' = InsEvent("ins_set_post", desc, post, 1, ins_desc, <<>>, <<>>)
       ELSE /\ ins_desc' = [ins_desc EXCEPT ![DescIdx(desc)].post = post]
            /\ ins_ev' = InsEvent("ins_set_post", desc, post, 0, ins_desc, <<>>, <<>>)
    /\ UNCHANGED <<sysvars, regvars, excvars, initvars>>

\* ins_clr_pre returning success without touching the descriptor
ins_clr_pre_NoClear(desc) ==
    /\ ins_desc' = ins_desc
    /\ ins_ev' = InsEvent("ins_clr_pre", desc, NULL,
                          IF desc = NULL THEN 1 ELSE 0, ins_desc, <<>>, <<>>)
    /\ UNCHANGED <<sysvars, regvars, excvars, initvars>>

ins_clr_pre(desc) ==
    /\ IF desc = NULL
       THEN /\ ins_desc' = ins_desc
            /\ ins_ev' = InsEvent("ins_clr_pre", desc, NULL, 1, ins_desc, <<>>, <<>>)
       ELSE /\ ins_desc' = [ins_desc EXCEPT ![DescIdx(desc)].pre = NULL]
            /\ ins_ev' = InsEvent("ins_clr_pre", desc, NULL, 0, ins_desc, <<>>, <<>>)
    /\ UNCHANGED <<sysvars, regvars, excvars, initvars>>

ins_clr_post(desc) ==
    /\ IF desc = NULL
       THEN /\ ins_desc' = ins_desc
            /\ ins_ev' = InsEvent("ins_clr_post", desc, NULL, 1, ins_desc, <<>>, <<>>)
       ELSE /\ ins_desc' = [ins_desc EXCEPT ![DescIdx(desc)].post = NULL]
            /\ ins_ev' = InsEvent("ins_clr_post", desc, NULL, 0, ins_desc, <<>>, <<>>)
    /\ UNCHANGED <<sysvars, regvars, excvars, initvars>>

ins_set_dflact(desc, action) ==
    /\ IF desc = NULL
       THEN /\ ins_desc' = ins_desc
            /\ ins_ev' = InsEvent("ins_set_dflact", desc, action, 1, ins_desc, <<>>, <<>>)
       ELSE IF action = INSDFL_ENABLE \/ action = INSDFL_DISABLE
            THEN /\ ins_desc' = [ins_desc EXCEPT ![DescIdx(desc)].dflact = action]
                 /\ ins_ev' = InsEvent("ins_set_dflact", desc, action, 0,
                                       ins_desc, <<>>, <<>>)
            ELSE /\ ins_desc' = ins_desc
                 /\ ins_ev' = InsEvent("ins_set_dflact", desc, action, 1,
                                       ins_desc, <<>>, <<>>)
    /\ UNCHANGED <<sysvars, regvars, excvars, initvars>>

\* a call trace_inspect makes for the instruction at position pos: the
\* pre-hook ("pre"), ins_inspect ("dfl") or the post-hook ("post")
InsCall(stage, fn, pos) == [stage |-> stage, fn |-> fn, ins |-> pos]

\* InsCalls calling ins_inspect whatever the default-action flag says
InsCalls_AlwaysInspect(tbl, pos, op) ==
    (IF tbl[op].pre # NULL THEN << InsCall("pre", tbl[op].pre, pos) >> ELSE <<>>)
    \o << InsCall("dfl", 0, pos) >>
    \o (IF tbl[op].post # NULL THEN << InsCall("post", tbl[op].post, pos) >> ELSE <<>>)

\* the body of the inner loop, for an instruction of opcode class op
InsCalls(tbl, pos, op) ==
    (IF tbl[op].pre # NULL THEN << InsCall("pre", tbl[op].pre, pos) >> ELSE <<>>)
    \o (IF tbl[op].dflact = INSDFL_ENABLE
        THEN << InsCall("dfl", 0, pos) >> ELSE <<>>)
    \o (IF tbl[op].post # NULL THEN << InsCall("post", tbl[op].post, pos) >> ELSE <<>>)

\* BblCalls visiting the instructions of the BBL from the last to the first
RECURSIVE BblCalls_Backwards(_, _, _, _)
BblCalls_Backwards(tbl, bbl, b, i) ==
    IF i > Len(bbl)
    THEN <<>>
    ELSE BblCalls_Backwards(tbl, bbl, b, i + 1) \o InsCalls(tbl, <<b, i>>, bbl[i])

\* the inner loop: the instructions of BBL number b, from instruction i on
RECURSIVE BblCalls(_, _, _, _)
BblCalls(tbl, bbl, b, i) ==
    IF i > Len(bbl)
    THEN <<>>
    ELSE InsCalls(tbl, <<b, i>>, bbl[i]) \o BblCalls(tbl, bbl, b, i + 1)

\* the outer loop: the BBLs of the trace, from BBL b on
RECURSIVE TraceCalls(_, _, _)
TraceCalls(tbl, trace, b) ==
    IF b > Len(trace)
    THEN <<>>
    ELSE BblCalls(tbl, trace[b], b, 1) \o TraceCalls(tbl, trace, b + 1)

trace_inspect(trace) ==
    /\ ins_desc' = ins_desc
    /\ ins_ev' = InsEvent("trace_inspect", NULL, 0, 0, ins_desc, trace,
                          TraceCalls(ins_desc, trace, 1))
    /\ UNCHANGED <<sysvars, regvars, excvars, initvars>>

\* the traces inspected: two BBLs, of two instructions and of one; an
\* instruction is given by its opcode class
Traces == { << <<a, b>>, <<c>> >> : a \in Iclass, b \in Iclass, c \in Iclass }
\* the callbacks a tool registers: one pre-hook, one post-hook
PreHooks == {NULL, 1}
PostHooks == {NULL, 2}
\* the actions passed to ins_set_dflact: both valid ones and an invalid one
Actions == {INSDFL_ENABLE, INSDFL_DISABLE, 2}

NextIns ==
    \/ \E desc \in DescPtrs, pre \in PreHooks : ins_set_pre(desc, pre)
    \/ \E desc \in DescPtrs, post \in PostHooks : ins_set_post(desc, post)
    \/ \E desc \in DescPtrs : ins_clr_pre(desc)
    \/ \E desc \in DescPtrs : ins_clr_post(desc)
    \/ \E desc \in DescPtrs, action \in Actions : ins_set_dflact(desc, action)
    \/ \E trace \in Traces : trace_inspect(trace)

SpecIns == Init /\ [][NextIns]_vars

(***************************************************************************)
(* The REG-to-VCPU maps.                                                   *)
(***************************************************************************)
\* the registers of Pin's REG enumeration the model knows, in the order of
\* their ordinals (the first has ordinal 0); REG_LAST follows the last one
RegNames ==
    << "REG_INVALID_", "REG_NONE",
       "REG_EDI", "REG_ESI", "REG_EBP", "REG_ESP",
       "REG_EBX", "REG_EDX", "REG_ECX", "REG_EAX",
       "REG_SEG_CS", "REG_SEG_SS", "REG_SEG_DS",
       "REG_SEG_ES", "REG_SEG_FS", "REG_SEG_GS",
       "REG_EFLAGS", "REG_EIP",
       "REG_AL", "REG_AH", "REG_AX", "REG_CL", "REG_CH", "REG_CX",
       "REG_DL", "REG_DH", "REG_DX", "REG_BL", "REG_BH", "REG_BX",
       "REG_BP", "REG_SI", "REG_DI", "REG_SP", "REG_FLAGS", "REG_IP",
       "REG_MM0", "REG_MM1", "REG_XMM0", "REG_XMM1", "REG_ST0", "REG_ST1" >>

REG_LAST == Len(RegNames)
\* the ordinal of the register named n
REG(n) == (CHOOSE i \in 1 .. Len(RegNames) : RegNames[i] = n) - 1

\* the number of canonical slots of the VCPU; overflow slots start here
GRP_NUM == 8
\* the result of a lookup whose assertion failed: the process aborts
ABORTED == 0 - 1

\* the default case of the three switches
RegDefault(reg) == IF reg < REG_LAST THEN GRP_NUM + reg ELSE ABORTED

\* REG32_INDX with a default case that leaves out the GRP_NUM offset
REG32_INDX_NoOffset(reg) ==
    CASE reg = REG("REG_EDI") -> 0
      [] reg = REG("REG_ESI") -> 1
      [] reg = REG("REG_EBP") -> 2
      [] reg = REG("REG_ESP") -> 3
      [] reg = REG("REG_EBX") -> 4
      [] reg = REG("REG_EDX") -> 5
      [] reg = REG("REG_ECX") -> 6
      [] reg = REG("REG_EAX") -> 7
      [] OTHER -> IF reg < REG_LAST THEN reg ELSE ABORTED

REG32_INDX(reg) ==
    CASE reg = REG("REG_EDI") -> 0
      [] reg = REG("REG_ESI") -> 1
      [] reg = REG("REG_EBP") -> 2
      [] reg = REG("REG_ESP") -> 3
      [] reg = REG("REG_EBX") -> 4
      [] reg = REG("REG_EDX") -> 5
      [] reg = REG("REG_ECX") -> 6
      [] reg = REG("REG_EAX") -> 7
      [] OTHER -> RegDefault(reg)

REG16_INDX(reg) ==
    CASE reg = REG("REG_DI") -> 0
      [] reg = REG("REG_SI") -> 1
      [] reg = REG("REG_BP") -> 2
      [] reg = REG("REG_SP") -> 3
      [] reg = REG("REG_BX") -> 4
      [] reg = REG("REG_DX") -> 5
      [] reg = REG("REG_CX") -> 6
      [] reg = REG("REG_AX") -> 7
      [] OTHER -> RegDefault(reg)

\* REG8_INDX without the cases of the high bytes
REG8_INDX_LowBytesOnly(reg) ==
    CASE reg = REG("REG_AL") -> 7
      [] reg = REG("REG_CL") -> 6
      [] reg = REG("REG_DL") -> 5
      [] reg = REG("REG_BL") -> 4
      [] OTHER -> RegDefault(reg)

REG8_INDX(reg) ==
    CASE reg = REG("REG_AH") \/ reg = REG("REG_AL") -> 7
      [] reg = REG("REG_CH") \/ reg = REG("REG_CL") -> 6
      [] reg = REG("REG_DH") \/ reg = REG("REG_DL") -> 5
      [] reg = REG("REG_BH") \/ reg = REG("REG_BL") -> 4
      [] OTHER -> RegDefault(reg)

\* a lookup by instrumentation code
CallREG32_INDX(reg) ==
    /\ reg_ev' = RegEvent("REG32_INDX", reg, REG32_INDX(reg))
    /\ UNCHANGED <<sysvars, insvars, excvars, initvars>>

CallREG16_INDX(reg) ==
    /\ reg_ev' = RegEvent("REG16_INDX", reg, REG16_INDX(reg))
    /\ UNCHANGED <<sysvars, insvars, excvars, initvars>>

CallREG8_INDX(reg) ==
    /\ reg_ev' = RegEvent("REG8_INDX", reg, REG8_INDX(reg))
    /\ UNCHANGED <<sysvars, insvars, excvars, initvars>>

\* every register ordinal, and REG_LAST itself
RegIds == 0 .. REG_LAST

NextReg ==
    \/ \E reg \in RegIds : CallREG32_INDX(reg)
    \/ \E reg \in RegIds : CallREG16_INDX(reg)
    \/ \E reg \in RegIds : CallREG8_INDX(reg)

SpecReg == Init /\ [][NextReg]_vars

(***************************************************************************)
(* excpt_hdlr: the handler of internal exceptions.                         *)
(***************************************************************************)
\* the model's pages hold PAGE_SZ bytes; fault addresses lie in NumPages pages
PAGE_SZ == 2
NumPages == 3
\* EFLAGS.AC is bit 18
AC_BIT == 18

\* the start of the page an address lies in
PAGE_ALIGN(vaddr) == (vaddr \div PAGE_SZ) * PAGE_SZ
\* the guard region: one protected page, above the page of address 0
null_seg == PAGE_SZ
\* eflags with the alignment-check bit cleared
CLEAR_EFLAGS_AC(eflags) ==
    IF (eflags \div (2 ^ AC_BIT)) % 2 = 1 THEN eflags - 2 ^ AC_BIT ELSE eflags

\* the address PIN_GetFaultyAccessAddress leaves in vaddr (initialised to 0x0)
FaultVaddr(info) == IF info.has_addr THEN info.addr ELSE 0

\* ExcptVerdict terminating the application on every access-denied fault
ExcptVerdict_DeniedAnyPage(info) ==
    IF info.code = "EXCEPTCODE_ACCESS_MISALIGNED"
    THEN "EHR_HANDLED"
    ELSE IF info.code = "EXCEPTCODE_ACCESS_DENIED"
         THEN "PIN_ExitApplication"
         ELSE "EHR_UNHANDLED"

\* the way excpt_hdlr ends: the result it returns, or the call that does not
\* return
ExcptVerdict(info) ==
    IF info.code = "EXCEPTCODE_ACCESS_MISALIGNED"
    THEN "EHR_HANDLED"
    ELSE IF /\ info.code = "EXCEPTCODE_ACCESS_DENIED"
            /\ PAGE_ALIGN(FaultVaddr(info)) = null_seg
         THEN "PIN_ExitApplication"
         ELSE "EHR_UNHANDLED"

excpt_hdlr(info) ==
    /\ ~exited
    /\ pctx' = IF info.code = "EXCEPTCODE_ACCESS_MISALIGNED"
               THEN CLEAR_EFLAGS_AC(pctx) ELSE pctx
    /\ exited' = (ExcptVerdict(info) = "PIN_ExitApplication")
    /\ exc_ev' = [op |-> "excpt_hdlr", info |-> info, verdict |-> ExcptVerdict(info)]
    /\ UNCHANGED <<sysvars, insvars, regvars, initvars>>

\* analysis code runs on and leaves another value in EFLAGS; the AC bit may
\* get asserted
analysis_step(eflags) ==
    /\ ~exited
    /\ pctx # eflags
    /\ pctx' = eflags
    /\ exc_ev' = [op |-> "analysis_step", info |-> NoFault, verdict |-> "none"]
    /\ UNCHANGED <<exited, sysvars, insvars, regvars, initvars>>

\* the exception codes delivered: the two the handler knows and two others
ExceptCodes ==
    {"EXCEPTCODE_ACCESS_MISALIGNED", "EXCEPTCODE_ACCESS_DENIED",
     "EXCEPTCODE_ACCESS_INVALID_ADDRESS", "EXCEPTCODE_INT_DIVIDE_BY_ZERO"}
FaultAddrs == 0 .. (NumPages * PAGE_SZ - 1)
\* every exception comes with an address or with none
ExceptInfos ==
    { ExceptInfo(code, TRUE, addr) : code \in ExceptCodes, addr \in FaultAddrs }
    \cup { ExceptInfo(code, FALSE, 0) : code \in ExceptCodes }
\* EFLAGS values: the carry, zero and alignment-check bits in every combination
EflagsVals ==
    { c + z * (2 ^ 6) + a * (2 ^ AC_BIT) : c \in {0, 1}, z \in {0, 1}, a \in {0, 1} }

NextExc ==
    \/ \E info \in ExceptInfos : excpt_hdlr(info)
    \/ \E eflags \in EflagsVals : analysis_step(eflags)

SpecExc == Init /\ [][NextExc]_vars

(***************************************************************************)
(* libdft_init                                                             *)
(***************************************************************************)
\* what PIN_ClaimToolRegister() returns: REG_INVALID() or a tool register
ToolRegs == {"REG_INVALID_", "REG_INST_G0"}
\* what tagmap_alloc() returns: 0, or 1 on error
TagmapRets == {0, 1}

\* the calls of thread_ctx_init, in order
ThreadCtxInitCalls(claimed) ==
    << "PIN_ClaimToolRegister" >>
    \o (IF claimed = "REG_INVALID_"
        THEN <<>>
        ELSE << "PIN_AddThreadStartFunction", "PIN_AddThreadFiniFunction" >>)

\* the result of thread_ctx_init
ThreadCtxInitRet(claimed) == IF claimed = "REG_INVALID_" THEN 1 ELSE 0

\* InitCalls going on after a failed tagmap_alloc
InitCalls_NoTagmapTest(claimed, tagmap_ret) ==
    ThreadCtxInitCalls(claimed)
    \o (IF ThreadCtxInitRet(claimed) # 0
        THEN <<>>
        ELSE << "tagmap_alloc" >>
             \o << "PIN_AddSyscallEntryFunction", "PIN_AddSyscallExitFunction",
                   "memset", "TRACE_AddInstrumentFunction",
                   "PIN_AddInternalExceptionHandler" >>)

\* the calls of libdft_init, in order
InitCalls(claimed, tagmap_ret) ==
    ThreadCtxInitCalls(claimed)
    \o (IF ThreadCtxInitRet(claimed) # 0
        THEN <<>>
        ELSE << "tagmap_alloc" >>
             \o (IF tagmap_ret # 0
                 THEN <<>>
                 ELSE << "PIN_AddSyscallEntryFunction", "PIN_AddSyscallExitFunction",
                         "memset", "TRACE_AddInstrumentFunction",
                         "PIN_AddInternalExceptionHandler" >>))

\* the result of libdft_init
InitRet(claimed, tagmap_ret) ==
    IF ThreadCtxInitRet(claimed) # 0 THEN 1
    ELSE IF tagmap_ret # 0 THEN 1
    ELSE 0

\* the callback each registration call hands to Pin
HookOf(call) ==
    CASE call = "PIN_AddThreadStartFunction" -> << "thread_alloc" >>
      [] call = "PIN_AddThreadFiniFunction" -> << "thread_free" >>
      [] call = "PIN_AddSyscallEntryFunction" -> << "sysenter_save" >>
      [] call = "PIN_AddSyscallExitFunction" -> << "sysexit_save" >>
      [] call = "TRACE_AddInstrumentFunction" -> << "trace_inspect" >>
      [] call = "PIN_AddInternalExceptionHandler" -> << "excpt_hdlr" >>
      [] OTHER -> <<>>

\* the callbacks a sequence of calls registers, in order
RECURSIVE HooksOf(_)
HooksOf(calls) ==
    IF calls = <<>> THEN <<>> ELSE HookOf(Head(calls)) \o HooksOf(Tail(calls))

\* whether the sequence of calls holds the call named c
Called(calls, c) == \E i \in 1 .. Len(calls) : calls[i] = c

\* the tool calls libdft_init once, from its main
libdft_init(claimed, tagmap_ret) ==
    /\ init_ev.op = "none"
    /\ thread_ctx_ptr' = claimed
    /\ hooks' = hooks \o HooksOf(InitCalls(claimed, tagmap_ret))
    /\ tagmap' = IF Called(InitCalls(claimed, tagmap_ret), "tagmap_alloc")
                    /\ tagmap_ret = 0
                 THEN [a \in Addr |-> 0] ELSE tagmap
    /\ ins_desc' = IF Called(InitCalls(claimed, tagmap_ret), "memset")
                   THEN [k \in Iclass |-> ZeroInsDesc] ELSE ins_desc
    /\ init_ev' = [op |-> "libdft_init", claimed |-> claimed,
                   tagmap_ret |-> tagmap_ret,
                   calls |-> InitCalls(claimed, tagmap_ret),
                   ret |-> InitRet(claimed, tagmap_ret)]
    /\ UNCHANGED <<tstate, slot, allocated, heap, pc, detached, ev, entered,
                   ins_ev, regvars, excvars>>

\* the tool registers hooks and default actions before or after libdft_init
NextInit ==
    \/ \E claimed \in ToolRegs, tagmap_ret \in TagmapRets :
            libdft_init(claimed, tagmap_ret)
    \/ \E desc \in DescPtrs, pre \in PreHooks : ins_set_pre(desc, pre)
    \/ \E desc \in DescPtrs, action \in Actions : ins_set_dflact(desc, action)

SpecInit == Init /\ [][NextInit]_vars

(***************************************************************************)
(* Properties of the syscall handlers.                                     *)
(***************************************************************************)
\* the handler named op has just run for thread t (as a step's post-state)
Ran(op, t) == ev'.op = op /\ ev'.tid = t

\* the thread's context block before the step
CtxOf(t) == heap[slot[t]]

\* whether either capture flag of syscall nr is set
Captures(nr) ==
    SysDesc(nr).save_args = 1 \/ SysDesc(nr).retval_args = 1

\* the bytes the default policy is to clear for descriptor d and arguments arg
WriteBack(d, arg) ==
    { a \in Addr : \E i \in ArgIdx :
        /\ i < d.nargs
        /\ d.map_args[i] > 0
        /\ arg[i] # NULL
        /\ arg[i] <= a /\ a < arg[i] + d.map_args[i] }

\* C1: when sysexit_save runs for a known syscall with a capture flag set, no
\* post-callback and a return value >= 0, the tag bytes it clears are exactly
\* the union of [arg[i], arg[i] + map_args[i]) over i < nargs with
\* map_args[i] > 0 and arg[i] # NULL; every other tag byte keeps its value.
C1_DefaultPolicyClearsWriteBack ==
    [][\A t \in Threads :
        ( /\ Ran("sysexit_save", t)
          /\ CtxOf(t).nr >= 0
          /\ Captures(CtxOf(t).nr)
          /\ SysDesc(CtxOf(t).nr).post = NULL
          /\ ev'.inp.ret >= 0 )
        => tagmap' = [a \in Addr |->
                        IF a \in WriteBack(SysDesc(CtxOf(t).nr), CtxOf(t).arg)
                        THEN 0 ELSE tagmap[a]]
      ]_vars

\* C1's case: the default policy issued a clear and a byte outside the
\* cleared ranges is still tagged
C1_Witness ==
    /\ ev.op = "sysexit_save"
    /\ ev.inp.ret >= 0
    /\ ev.clrn # <<>>
    /\ \E a \in Addr : tagmap[a] = 1

\* C2: when sysexit_save runs for a known syscall with retval_args set, no
\* post-callback and a negative return value, no tag byte changes and no
\* clear is issued.
C2_FailedSyscallClearsNothing ==
    [][\A t \in Threads :
        ( /\ Ran("sysexit_save", t)
          /\ CtxOf(t).nr >= 0
          /\ SysDesc(CtxOf(t).nr).retval_args = 1
          /\ SysDesc(CtxOf(t).nr).post = NULL
          /\ ev'.inp.ret < 0 )
        => tagmap' = tagmap /\ ev'.clrn = <<>>
      ]_vars

\* C2's case: a failed syscall whose write-back range holds a tagged byte
C2_Witness ==
    /\ ev.op = "sysexit_save"
    /\ ev.inp.ret < 0
    /\ heap[slot[ev.tid]].nr >= 0
    /\ SysDesc(heap[slot[ev.tid]].nr).retval_args = 1
    /\ SysDesc(heap[slot[ev.tid]].nr).post = NULL
    /\ \E a \in WriteBack(SysDesc(heap[slot[ev.tid]].nr),
                          heap[slot[ev.tid]].arg) : tagmap[a] = 1

\* C3: for a syscall number >= SYSCALL_MAX sysenter_save stores -1 and
\* changes nothing else of the context and calls no pre-callback; the
\* matching sysexit_save changes neither the context nor the tags and calls
\* no post-callback.
C3_UnknownSyscallIsSkipped ==
    [][\A t \in Threads :
        /\ ( Ran("sysenter_save", t) /\ ev'.inp.nr >= SYSCALL_MAX )
           => /\ heap'[slot[t]] = [CtxOf(t) EXCEPT !.nr = 0 - 1]
              /\ ev'.pre = <<>>
              /\ tagmap' = tagmap
        /\ ( Ran("sysexit_save", t) /\ CtxOf(t).nr = 0 - 1 )
           => /\ heap' = heap
              /\ tagmap' = tagmap
              /\ ev'.post = <<>>
              /\ ev'.clrn = <<>>
      ]_vars

\* C3's case: the exit of an unknown syscall, with arguments of an earlier
\* syscall still in the context and a tagged byte in memory
C3_Witness ==
    /\ ev.op = "sysexit_save"
    /\ heap[slot[ev.tid]].nr = 0 - 1
    /\ \E i \in ArgIdx : heap[slot[ev.tid]].arg[i] # NULL
    /\ \E a \in Addr : tagmap[a] = 1

\* C4: when sysexit_save runs for a known syscall with a capture flag set and
\* a post-callback registered, the post-callback is called exactly once, with
\* the context that already holds the return value, and sysexit_save clears
\* no tag byte.
C4_PostCallbackOverridesDefault ==
    [][\A t \in Threads :
        ( /\ Ran("sysexit_save", t)
          /\ CtxOf(t).nr >= 0
          /\ Captures(CtxOf(t).nr)
          /\ SysDesc(CtxOf(t).nr).post # NULL )
        => /\ ev'.post = << [fn |-> SysDesc(CtxOf(t).nr).post,
                             ctx |-> heap'[slot[t]]] >>
           /\ heap'[slot[t]].ret = ev'.inp.ret
           /\ ev'.clrn = <<>>
           /\ tagmap' = tagmap
      ]_vars

\* C4's case: a successful syscall with a post-callback whose write-back
\* range holds a tagged byte
C4_Witness ==
    /\ ev.op = "sysexit_save"
    /\ Len(ev.post) = 1
    /\ ev.inp.ret >= 0
    /\ \E a \in WriteBack(SysDesc(heap[slot[ev.tid]].nr),
                          heap[slot[ev.tid]].arg) : tagmap[a] = 1

(***************************************************************************)
(* Properties of the thread contexts.                                      *)
(***************************************************************************)
HandlerOps == {"thread_alloc", "thread_free", "sysenter_save", "sysexit_save"}

\* C5: under any interleaving of the notifications of several threads, a
\* notification for thread a leaves the context-pointer slot and the context
\* of every other live thread unchanged (in particular thread_alloc does), a
\* context only ever holds processor-state references of its own thread, and
\* no two live threads' slots hold the same address.
C5_ThreadContextIsolation ==
    [][ /\ \A a \in Threads : \A b \in Threads \ {a} :
            (tstate'[a] = "live" /\ tstate'[b] = "live") => slot'[a] # slot'[b]
        /\ \A a \in Threads : \A b \in Threads \ {a} :
            ( /\ ev'.op \in HandlerOps
              /\ ev'.tid = a
              /\ tstate[b] = "live"
              /\ slot[b] # NULL )
            => /\ slot'[b] = slot[b]
               /\ heap'[slot[b]] = heap[slot[b]]
               /\ heap'[slot[b]].aux.tid \in {0, b}
      ]_vars

\* C5's case: a thread has just been given its context while another live
\* thread's context holds a captured syscall
C5_Witness ==
    /\ ev.op = "thread_alloc"
    /\ slot[ev.tid] # NULL
    /\ \E b \in Threads \ {ev.tid} :
        /\ tstate[b] = "live"
        /\ pc[b] = "insys"
        /\ heap[slot[b]].arg = [i \in ArgIdx |-> IF i < 3 THEN ThreadRaw(b)[i] ELSE 0]

SyscallOps == {"sysenter_save", "sysexit_save"}

C18_ContextLifecycle ==
    [][ /\ allocated' = { slot'[t] : t \in { u \in Threads :
                                            tstate'[u] = "live" /\ slot'[u] # NULL } }
        /\ \A a \in Threads : \A b \in Threads \ {a} :
            ( tstate'[a] = "live" /\ tstate'[b] = "live" /\ slot'[a] # NULL )
            => slot'[a] # slot'[b]
        /\ \A t \in Threads :
            ( Ran("thread_alloc", t) /\ slot'[t] # NULL )
            => /\ tstate[t] = "new"
               /\ slot'[t] \notin allocated
               /\ allocated' = allocated \cup {slot'[t]}
               /\ heap'[slot'[t]] = ZeroCtx
        /\ \A t \in Threads :
            Ran("thread_free", t)
            => /\ tstate[t] = "live"
               /\ slot[t] \in allocated
               /\ allocated' = allocated \ {slot[t]}
               /\ tstate'[t] = "done"
        /\ allocated' # allocated => ev'.op \in {"thread_alloc", "thread_free"}
        /\ \A t \in Threads :
            ( ev'.op \in SyscallOps /\ ev'.tid = t ) => slot[t] \in allocated
      ]_vars

\* C18's case: a thread has just been given, zeroed, the block that a
\* finished thread had released, and that thread's slot still addresses it
C18_Witness ==
    /\ ev.op = "thread_alloc"
    /\ tstate[ev.tid] = "live"
    /\ slot[ev.tid] \in allocated
    /\ heap[slot[ev.tid]] = ZeroCtx
    /\ \E b \in Threads \ {ev.tid} :
        /\ tstate[b] = "done"
        /\ slot[b] = slot[ev.tid]

\* the bytes sysexit_save is to clear for a context with number nr and
\* arguments arg and return value ret
ExitClears(nr, arg, ret) ==
    IF nr >= 0 /\ Captures(nr) /\ SysDesc(nr).post = NULL /\ ret >= 0
    THEN WriteBack(SysDesc(nr), arg)
    ELSE {}

\* C19: under any interleaving, the number and the arguments sysexit_save
\* finds in thread a's context are those a's latest sysenter_save left
\* there; its decision (skip on the sentinel, capture, post-callback, clears)
\* and the bytes it clears follow from them and the return value alone; and a
\* handler run for another thread changes neither.
C19_EnterExitPairing ==
    [][ \A a \in Threads :
        /\ Ran("sysexit_save", a)
           => /\ CtxOf(a).nr = entered[a].nr
              /\ CtxOf(a).arg = entered[a].arg
              /\ entered[a].nr < 0 => heap' = heap /\ ev'.post = <<>>
              /\ ( entered[a].nr >= 0 /\ Captures(entered[a].nr) )
                 => heap'[slot[a]].ret = ev'.inp.ret
              /\ Len(ev'.post) =
                    IF /\ entered[a].nr >= 0
                       /\ Captures(entered[a].nr)
                       /\ SysDesc(entered[a].nr).post # NULL
                    THEN 1 ELSE 0
              /\ tagmap' = [x \in Addr |->
                              IF x \in ExitClears(entered[a].nr, entered[a].arg,
                                                  ev'.inp.ret)
                              THEN 0 ELSE tagmap[x]]
        /\ ( /\ tstate[a] = "live"
             /\ slot[a] # NULL
             /\ ev'.op \in HandlerOps
             /\ ev'.tid # a )
           => /\ entered'[a] = entered[a]
              /\ heap'[slot[a]].nr = heap[slot[a]].nr
              /\ heap'[slot[a]].arg = heap[slot[a]].arg
      ]_vars

\* C19's case: a thread's exit has cleared its buffer while another thread
\* is inside a syscall of its own, entered with other arguments, whose buffer
\* holds a byte that is still tagged
C19_Witness ==
    /\ ev.op = "sysexit_save"
    /\ ev.clrn # <<>>
    /\ \E b \in Threads \ {ev.tid} :
        /\ tstate[b] = "live"
        /\ pc[b] = "insys"
        /\ entered[b].nr >= 0
        /\ entered[b].arg # entered[ev.tid].arg
        /\ \E x \in WriteBack(SysDesc(entered[b].nr), entered[b].arg) :
            tagmap[x] = 1

(***************************************************************************)
(* Properties of the instruction descriptors.                              *)
(***************************************************************************)
\* trace_inspect dispatches every trace the same way under tables t1 and t2
SameDispatch(t1, t2) ==
    \A trace \in Traces : TraceCalls(t1, trace, 1) = TraceCalls(t2, trace, 1)

\* the step is the successful clear named clr on a descriptor, right after
\* the successful registration named set on the same descriptor
SetThenClr(set, clr) ==
    /\ ins_ev.op = set
    /\ ins_ev.ret = 0
    /\ ins_ev'.op = clr
    /\ ins_ev'.ret = 0
    /\ ins_ev'.desc = ins_ev.desc

\* C6 as stated: for any descriptor state, ins_set_pre(desc, f) followed by
\* ins_clr_pre(desc) (ins_set_post followed by ins_clr_post) leaves
\* trace_inspect dispatching exactly as before the registration.
C6_RoundTripAnyState ==
    [][ ( SetThenClr("ins_set_pre", "ins_clr_pre")
          \/ SetThenClr("ins_set_post", "ins_clr_post") )
        => SameDispatch(ins_desc', ins_ev.before)
      ]_vars

\* C6, amended: for a descriptor with no pre-hook (post-hook) registered,
\* ins_set_pre(desc, f) followed by ins_clr_pre(desc) (ins_set_post followed
\* by ins_clr_post) leaves the descriptor table, and so the dispatch of
\* trace_inspect, exactly as before the registration.
C6_RoundTripFromEmptySlot ==
    [][ /\ ( /\ SetThenClr("ins_set_pre", "ins_clr_pre")
             /\ ins_ev.before[DescIdx(ins_ev.desc)].pre = NULL )
           => ins_desc' = ins_ev.before /\ SameDispatch(ins_desc', ins_ev.before)
        /\ ( /\ SetThenClr("ins_set_post", "ins_clr_post")
             /\ ins_ev.before[DescIdx(ins_ev.desc)].post = NULL )
           => ins_desc' = ins_ev.before /\ SameDispatch(ins_desc', ins_ev.before)
      ]_vars

\* C6's case: a pre-hook was registered on an empty slot and cleared again,
\* on a descriptor that has a post-hook and a disabled default action
C6_Witness ==
    /\ ins_ev.op = "ins_clr_pre"
    /\ ins_ev.roundtrip
    /\ ins_ev.before[DescIdx(ins_ev.desc)].pre # NULL
    /\ ins_desc[DescIdx(ins_ev.desc)].post # NULL
    /\ ins_desc[DescIdx(ins_ev.desc)].dflact = INSDFL_DISABLE

\* the positions of the instructions of opcode class k in a trace
Positions(trace, k) ==
    { pos \in { <<b, i>> : b \in 1 .. Len(trace), i \in 1 .. 2 } :
        pos[2] <= Len(trace[pos[1]]) /\ trace[pos[1]][pos[2]] = k }

\* the calls of a dispatch log that concern the instruction at pos
CallsAt(calls, pos) == SelectSeq(calls, LAMBDA c : c.ins = pos)

\* C7: a successful ins_set_dflact(desc, INSDFL_DISABLE) sets the flag of
\* that descriptor and changes neither its hooks nor any other descriptor;
\* only ins_set_dflact changes a flag; and for an instruction whose class is
\* disabled trace_inspect calls exactly the registered pre-hook and post-hook
\* and not ins_inspect, while for an enabled class ins_inspect is called.
C7_DisableSuppressesAnalyzerOnly ==
    [][ /\ ( /\ ins_ev'.op = "ins_set_dflact"
             /\ ins_ev'.arg = INSDFL_DISABLE
             /\ ins_ev'.ret = 0 )
           => ins_desc' = [ins_desc EXCEPT
                             ![DescIdx(ins_ev'.desc)].dflact = INSDFL_DISABLE]
        /\ \A k \in Iclass :
             ins_desc'[k].dflact # ins_desc[k].dflact
             => ins_ev'.op = "ins_set_dflact" /\ ins_ev'.desc = DescPtr(k)
        /\ ins_ev'.op = "trace_inspect"
           => \A k \in Iclass : \A pos \in Positions(ins_ev'.trace, k) :
                CallsAt(ins_ev'.calls, pos) =
                    (IF ins_desc[k].pre # NULL
                     THEN << InsCall("pre", ins_desc[k].pre, pos) >> ELSE <<>>)
                    \o (IF ins_desc[k].dflact = INSDFL_DISABLE
                        THEN <<>> ELSE << InsCall("dfl", 0, pos) >>)
                    \o (IF ins_desc[k].post # NULL
                        THEN << InsCall("post", ins_desc[k].post, pos) >> ELSE <<>>)
      ]_vars

\* C7's case: a trace was inspected that holds an instruction of a disabled
\* class with both hooks registered and an instruction of an enabled class
C7_Witness ==
    /\ ins_ev.op = "trace_inspect"
    /\ \E k \in Iclass :
        /\ Positions(ins_ev.trace, k) # {}
        /\ ins_desc[k].dflact = INSDFL_DISABLE
        /\ ins_desc[k].pre # NULL
        /\ ins_desc[k].post # NULL
    /\ \E k \in Iclass :
        /\ Positions(ins_ev.trace, k) # {}
        /\ ins_desc[k].dflact = INSDFL_ENABLE

SetOps == {"ins_set_pre", "ins_set_post"}
ClrOps == {"ins_clr_pre", "ins_clr_post"}

\* C8: each registration call returns 1 exactly when the descriptor pointer
\* is NULL, the callback pointer is NULL (set operations) or the action is
\* neither INSDFL_ENABLE nor INSDFL_DISABLE, and 0 otherwise; a failing call
\* leaves every descriptor unchanged.
C8_RegistrationErrors ==
    [][ ins_ev'.op \in SetOps \cup ClrOps \cup {"ins_set_dflact"}
        => /\ ins_ev'.ret \in {0, 1}
           /\ ins_ev'.ret = 1
              <=> \/ ins_ev'.desc = NULL
                  \/ ins_ev'.op \in SetOps /\ ins_ev'.arg = NULL
                  \/ /\ ins_ev'.op = "ins_set_dflact"
                     /\ ins_ev'.arg \notin {INSDFL_ENABLE, INSDFL_DISABLE}
           /\ ins_ev'.ret = 1 => ins_desc' = ins_desc
      ]_vars

\* C8's case: a set operation failed on a NULL callback for a descriptor
\* that has a hook registered
C8_Witness ==
    /\ ins_ev.op = "ins_set_post"
    /\ ins_ev.ret = 1
    /\ ins_ev.desc # NULL
    /\ ins_ev.arg = NULL
    /\ ins_desc[DescIdx(ins_ev.desc)].post # NULL

(***************************************************************************)
(* Properties of the REG-to-VCPU maps.                                     *)
(***************************************************************************)
\* the eight canonical registers in slot order, with their 16-bit views and,
\* for the four that have them, their low and high byte views
Canonical ==
    << [r32 |-> "REG_EDI", r16 |-> "REG_DI", r8 |-> {}],
       [r32 |-> "REG_ESI", r16 |-> "REG_SI", r8 |-> {}],
       [r32 |-> "REG_EBP", r16 |-> "REG_BP", r8 |-> {}],
       [r32 |-> "REG_ESP", r16 |-> "REG_SP", r8 |-> {}],
       [r32 |-> "REG_EBX", r16 |-> "REG_BX", r8 |-> {"REG_BL", "REG_BH"}],
       [r32 |-> "REG_EDX", r16 |-> "REG_DX", r8 |-> {"REG_DL", "REG_DH"}],
       [r32 |-> "REG_ECX", r16 |-> "REG_CX", r8 |-> {"REG_CL", "REG_CH"}],
       [r32 |-> "REG_EAX", r16 |-> "REG_AX", r8 |-> {"REG_AL", "REG_AH"}] >>

\* the registers each mapper has a case for
CanonSet(fn) ==
    CASE fn = "REG32_INDX" -> { REG(Canonical[s].r32) : s \in 1 .. 8 }
      [] fn = "REG16_INDX" -> { REG(Canonical[s].r16) : s \in 1 .. 8 }
      [] fn = "REG8_INDX" ->
            UNION { { REG(n) : n \in Canonical[s].r8 } : s \in 1 .. 8 }
      [] OTHER -> {}

\* C9: the 32-bit mapper returns slot 0..7 for EDI, ESI, EBP, ESP, EBX, EDX,
\* ECX, EAX; the 16-bit mapper returns the same slot for the 16-bit view, and
\* the 8-bit mapper returns the parent's slot for the low and the high byte
\* view.
C9_AliasConsistency ==
    \A s \in 1 .. 8 :
        /\ ( reg_ev.fn = "REG32_INDX" /\ reg_ev.reg = REG(Canonical[s].r32) )
           => reg_ev.out = s - 1
        /\ ( reg_ev.fn = "REG16_INDX" /\ reg_ev.reg = REG(Canonical[s].r16) )
           => reg_ev.out = s - 1
        /\ ( /\ reg_ev.fn = "REG8_INDX"
             /\ \E n \in Canonical[s].r8 : reg_ev.reg = REG(n) )
           => reg_ev.out = s - 1

\* C9's case: the high byte of the A register looked up by the 8-bit mapper
C9_Witness ==
    /\ reg_ev.fn = "REG8_INDX"
    /\ reg_ev.reg = REG("REG_AH")
    /\ reg_ev.out = 7

\* the overflow slot a mapper gives register ordinal reg
Overflow(fn, reg) ==
    CASE fn = "REG32_INDX" -> REG32_INDX(reg)
      [] fn = "REG16_INDX" -> REG16_INDX(reg)
      [] fn = "REG8_INDX" -> REG8_INDX(reg)

\* C10: each mapper maps a register below REG_LAST that it has no case for
\* to GRP_NUM + ordinal; that slot is none of 0..7, is below
\* GRP_NUM + REG_LAST and differs from the slot of every other such
\* register; a register >= REG_LAST fails the assertion.
C10_OverflowSlots ==
    reg_ev.fn # "none" =>
        /\ ( reg_ev.reg < REG_LAST /\ reg_ev.reg \notin CanonSet(reg_ev.fn) )
           => /\ reg_ev.out = GRP_NUM + reg_ev.reg
              /\ reg_ev.out \notin 0 .. 7
              /\ reg_ev.out < GRP_NUM + REG_LAST
              /\ \A other \in (0 .. (REG_LAST - 1)) \ CanonSet(reg_ev.fn) :
                    other # reg_ev.reg
                    => Overflow(reg_ev.fn, other) # reg_ev.out
        /\ reg_ev.reg >= REG_LAST => reg_ev.out = ABORTED

\* C10's case: a 32-bit register looked up by the 16-bit mapper, which has
\* no case for it
C10_Witness ==
    /\ reg_ev.fn = "REG16_INDX"
    /\ reg_ev.reg = REG("REG_EAX")
    /\ reg_ev.out = GRP_NUM + REG("REG_EAX")

(***************************************************************************)
(* Properties of the exception handler.                                    *)
(***************************************************************************)
\* whether the alignment-check bit is set in an EFLAGS value
AcSet(eflags) == (eflags \div (2 ^ AC_BIT)) % 2 = 1

\* whether a fault comes with an address inside the guard page
InGuardPage(info) ==
    /\ info.has_addr
    /\ null_seg <= info.addr
    /\ info.addr < null_seg + PAGE_SZ

\* C11: excpt_hdlr returns EHR_HANDLED exactly for a misaligned-access
\* fault, and then the physical EFLAGS has lost its AC bit and nothing else;
\* it terminates the application exactly for an access-denied fault whose
\* address lies in the page of null_seg; for every other fault it returns
\* EHR_UNHANDLED and no state changes.
C11_FaultVerdicts ==
    [][ exc_ev'.op = "excpt_hdlr" =>
        /\ exc_ev'.verdict = "EHR_HANDLED"
           <=> exc_ev'.info.code = "EXCEPTCODE_ACCESS_MISALIGNED"
        /\ exc_ev'.verdict = "EHR_HANDLED"
           => /\ ~AcSet(pctx')
              /\ pctx' = IF AcSet(pctx) THEN pctx - 2 ^ AC_BIT ELSE pctx
              /\ ~exited'
        /\ exited'
           <=> /\ exc_ev'.info.code = "EXCEPTCODE_ACCESS_DENIED"
               /\ InGuardPage(exc_ev'.info)
        /\ exited' <=> exc_ev'.verdict = "PIN_ExitApplication"
        /\ ( /\ exc_ev'.info.code # "EXCEPTCODE_ACCESS_MISALIGNED"
             /\ ~ ( /\ exc_ev'.info.code = "EXCEPTCODE_ACCESS_DENIED"
                    /\ InGuardPage(exc_ev'.info) ) )
           => /\ exc_ev'.verdict = "EHR_UNHANDLED"
              /\ UNCHANGED <<pctx, exited, sysvars, insvars, regvars, initvars>>
      ]_vars

\* C11's case: an access-denied fault on a page above the guard page was
\* passed on as unhandled, with the AC bit still asserted
C11_Witness ==
    /\ exc_ev.op = "excpt_hdlr"
    /\ exc_ev.info.code = "EXCEPTCODE_ACCESS_DENIED"
    /\ exc_ev.info.has_addr
    /\ exc_ev.info.addr >= null_seg + PAGE_SZ
    /\ exc_ev.verdict = "EHR_UNHANDLED"
    /\ ~exited
    /\ AcSet(pctx)

(***************************************************************************)
(* Properties of the initialization.                                       *)
(***************************************************************************)
\* the six steps of libdft_init as the calls they consist of, in order
InitOrder ==
    << "PIN_ClaimToolRegister", "PIN_AddThreadStartFunction",
       "PIN_AddThreadFiniFunction",
       "tagmap_alloc",
       "PIN_AddSyscallEntryFunction", "PIN_AddSyscallExitFunction",
       "memset",
       "TRACE_AddInstrumentFunction",
       "PIN_AddInternalExceptionHandler" >>

IsPrefix(s1, s2) == Len(s1) <= Len(s2) /\ SubSeq(s2, 1, Len(s1)) = s1

\* C13: the calls of libdft_init are a prefix of the six steps in their
\* order; when the register claim fails it returns 1 after that call alone,
\* with no hook registered and the dispatch table untouched; when
\* tagmap_alloc fails it returns 1 after the first two steps, with the thread
\* hooks alone registered and the dispatch table untouched; it returns 0
\* exactly when all six steps were done, and then the six hooks are
\* registered in order and the dispatch table is reset.
C13_InitOrderAndFailure ==
    [][ ( init_ev.op = "none" /\ init_ev'.op = "libdft_init" ) =>
        /\ IsPrefix(init_ev'.calls, InitOrder)
        /\ init_ev'.ret \in {0, 1}
        /\ init_ev'.ret = 1
           <=> ( init_ev'.claimed = "REG_INVALID_" \/ init_ev'.tagmap_ret # 0 )
        /\ init_ev'.claimed = "REG_INVALID_"
           => /\ init_ev'.calls = SubSeq(InitOrder, 1, 1)
              /\ hooks' = <<>>
              /\ ins_desc' = ins_desc
        /\ ( init_ev'.claimed # "REG_INVALID_" /\ init_ev'.tagmap_ret # 0 )
           => /\ init_ev'.calls = SubSeq(InitOrder, 1, 4)
              /\ hooks' = << "thread_alloc", "thread_free" >>
              /\ ins_desc' = ins_desc
        /\ init_ev'.ret = 0 <=> init_ev'.calls = InitOrder
        /\ init_ev'.ret = 0
           => /\ hooks' = << "thread_alloc", "thread_free", "sysenter_save",
                             "sysexit_save", "trace_inspect", "excpt_hdlr" >>
              /\ ins_desc' = [k \in Iclass |-> ZeroInsDesc]
              /\ thread_ctx_ptr' # "REG_INVALID_"
      ]_vars

\* C13's case: tagmap_alloc failed after the thread hooks were registered,
\* and a hook the tool had registered before is still in the dispatch table
C13_Witness ==
    /\ init_ev.op = "libdft_init"
    /\ init_ev.ret = 1
    /\ init_ev.claimed # "REG_INVALID_"
    /\ init_ev.tagmap_ret # 0
    /\ hooks = << "thread_alloc", "thread_free" >>
    /\ \E k \in Iclass : ins_desc[k].pre # NULL


(***************************************************************************)
(* Properties of trace_inspect's dispatch order.                           *)
(***************************************************************************)
\* the positions of all the instructions of a trace
TracePositions(trace) ==
    UNION { { <<b, i>> : i \in 1 .. Len(trace[b]) } : b \in 1 .. Len(trace) }

\* the place of a stage among the three stages of one instruction
StageRank(stage) ==
    CASE stage = "pre" -> 1
      [] stage = "dfl" -> 2
      [] stage = "post" -> 3

\* call c comes earlier than call d in program order: an earlier BBL, an
\* earlier instruction of the same BBL, or an earlier stage of the instruction
CallBefore(c, d) ==
    \/ c.ins[1] < d.ins[1]
    \/ c.ins[1] = d.ins[1] /\ c.ins[2] < d.ins[2]
    \/ c.ins = d.ins /\ StageRank(c.stage) < StageRank(d.stage)

\* C14: trace_inspect visits the basic blocks of a trace in program order and
\* the instructions of each block in program order; for each instruction it
\* invokes, in this order and each at most once, the registered pre-hook of
\* its opcode class, the built-in analyzer if the class is enabled, and the
\* registered post-hook; the stages of one instruction are all complete
\* before any stage of the next instruction.
C14_ThreeStageDispatchOrder ==
    [][ ins_ev'.op = "trace_inspect"
        => /\ \A j \in 1 .. Len(ins_ev'.calls) : \A k \in 1 .. Len(ins_ev'.calls) :
                j < k => CallBefore(ins_ev'.calls[j], ins_ev'.calls[k])
           /\ \A j \in 1 .. Len(ins_ev'.calls) :
                /\ ins_ev'.calls[j].ins \in TracePositions(ins_ev'.trace)
                /\ ins_ev'.calls[j].stage \in {"pre", "dfl", "post"}
           /\ \A pos \in TracePositions(ins_ev'.trace) :
                LET d == ins_desc[ins_ev'.trace[pos[1]][pos[2]]]
                    at == CallsAt(ins_ev'.calls, pos)
                IN  /\ (d.pre # NULL)
                        <=> \E j \in 1 .. Len(at) : at[j] = InsCall("pre", d.pre, pos)
                    /\ (d.dflact = INSDFL_ENABLE)
                        <=> \E j \in 1 .. Len(at) : at[j] = InsCall("dfl", 0, pos)
                    /\ (d.post # NULL)
                        <=> \E j \in 1 .. Len(at) : at[j] = InsCall("post", d.post, pos)
                    /\ \A j \in 1 .. Len(at) :
                        \/ at[j].stage = "pre" /\ at[j].fn = d.pre
                        \/ at[j].stage = "dfl"
                        \/ at[j].stage = "post" /\ at[j].fn = d.post
      ]_vars

\* C14's case: a trace was inspected all of whose instructions get the three
\* stages
C14_Witness ==
    /\ ins_ev.op = "trace_inspect"
    /\ Len(ins_ev.trace) > 1
    /\ \A pos \in TracePositions(ins_ev.trace) :
        Len(CallsAt(ins_ev.calls, pos)) = 3

(***************************************************************************)
(* Properties of the capture of the arguments.                             *)
(***************************************************************************)
\* C15: for a known syscall number sysenter_save always stores the number;
\* with a capture flag set it stores the arguments and the processor-state
\* reference and then calls the registered pre-callback exactly once with the
\* populated context; with neither flag set it stores no argument and no
\* processor-state reference and calls no pre-callback, registered or not.
C15_EnterGatingAndOrdering ==
    [][ \A t \in Threads :
          Ran("sysenter_save", t) /\ ev'.inp.nr < SYSCALL_MAX
          => /\ heap'[slot[t]].nr = ev'.inp.nr
             /\ Captures(ev'.inp.nr)
                => /\ \A i \in ArgIdx :
                        i < SysDesc(ev'.inp.nr).nargs
                        => heap'[slot[t]].arg[i] = ev'.inp.raw[i]
                   /\ heap'[slot[t]].aux = AuxOf(t, "enter")
                   /\ ev'.pre =
                        (IF SysDesc(ev'.inp.nr).pre # NULL
                         THEN << [fn |-> SysDesc(ev'.inp.nr).pre,
                                  ctx |-> heap'[slot[t]]] >>
                         ELSE <<>>)
             /\ ~Captures(ev'.inp.nr)
                => /\ heap'[slot[t]].arg = CtxOf(t).arg
                   /\ heap'[slot[t]].aux = CtxOf(t).aux
                   /\ ev'.pre = <<>>
      ]_vars

\* C15's case: sysenter_save ran for a syscall with neither flag set and a
\* pre-callback registered, and the context still holds the arguments of an
\* earlier syscall, not those of this one
C15_Witness ==
    /\ ev.op = "sysenter_save"
    /\ ev.inp.nr < SYSCALL_MAX
    /\ ~Captures(ev.inp.nr)
    /\ SysDesc(ev.inp.nr).pre # NULL
    /\ ev.pre = <<>>
    /\ heap[slot[ev.tid]].nr = ev.inp.nr
    /\ \E i \in ArgIdx :
        /\ i < SysDesc(ev.inp.nr).nargs
        /\ heap[slot[ev.tid]].arg[i] # NULL
        /\ heap[slot[ev.tid]].arg[i] # ev.inp.raw[i]

\* the smaller of two numbers
Min(a, b) == IF a < b THEN a ELSE b

\* C16: when a capture flag is set, sysenter_save copies exactly
\* min(nargs, 6) raw argument words, for every declared argument count
\* nargs: the slots 0 .. min(nargs, 6) - 1 hold the raw arguments of this
\* call and the remaining slots keep their previous content.
C16_BoundedArgumentCopy ==
    [][ \A t \in Threads :
          /\ Ran("sysenter_save", t)
          /\ ev'.inp.nr < SYSCALL_MAX
          /\ Captures(ev'.inp.nr)
          => \A i \in ArgIdx :
                heap'[slot[t]].arg[i] =
                    (IF i < Min(SysDesc(ev'.inp.nr).nargs, SYSCALL_ARG_NUM)
                     THEN ev'.inp.raw[i]
                     ELSE CtxOf(t).arg[i])
      ]_vars

\* C16's case: sysenter_save captured the arguments of a syscall that
\* declares some but not all six, and the slots beyond the declared count
\* hold the words of an earlier syscall, which differ from this call's
C16_Witness ==
    /\ ev.op = "sysenter_save"
    /\ ev.inp.nr < SYSCALL_MAX
    /\ Captures(ev.inp.nr)
    /\ SysDesc(ev.inp.nr).nargs > 0
    /\ SysDesc(ev.inp.nr).nargs < SYSCALL_ARG_NUM
    /\ \A i \in ArgIdx :
        IF i < SysDesc(ev.inp.nr).nargs
        THEN heap[slot[ev.tid]].arg[i] = ev.inp.raw[i]
        ELSE /\ heap[slot[ev.tid]].arg[i] # NULL
             /\ heap[slot[ev.tid]].arg[i] # ev.inp.raw[i]

\* C17: for a known syscall whose descriptor sets neither save_args nor
\* retval_args, sysexit_save stores no return value, calls no post-callback
\* even when one is registered, and clears no tag byte even when the
\* descriptor has non-zero write-back lengths and the call succeeded.
C17_NoCaptureNoExitEffect ==
    [][ \A t \in Threads :
          /\ Ran("sysexit_save", t)
          /\ CtxOf(t).nr >= 0
          /\ ~Captures(CtxOf(t).nr)
          => /\ heap' = heap
             /\ ev'.post = <<>>
             /\ ev'.clrn = <<>>
             /\ tagmap' = tagmap
      ]_vars

\* C17's case: sysexit_save ran with a return value >= 0 for a syscall with
\* neither flag set, a post-callback registered and a tagged byte in a range
\* its write-back lengths describe; the stored return value is another one
C17_Witness ==
    /\ ev.op = "sysexit_save"
    /\ heap[slot[ev.tid]].nr >= 0
    /\ ~Captures(heap[slot[ev.tid]].nr)
    /\ SysDesc(heap[slot[ev.tid]].nr).post # NULL
    /\ ev.inp.ret >= 0
    /\ heap[slot[ev.tid]].ret # ev.inp.ret
    /\ \E a \in WriteBack(SysDesc(heap[slot[ev.tid]].nr), heap[slot[ev.tid]].arg) :
        tagmap[a] = 1

\* C20: in the default exit policy, every index at which sysexit_save reads
\* the captured argument array and the write-back table is at least 0 and
\* below 6, and every argument slot it reads was written by the matching
\* sysenter_save of the same syscall and holds what that call wrote, for
\* every argument count the table declares.
C20_ArgumentSlotBounds ==
    [][ \A t \in Threads :
          Ran("sysexit_save", t)
          => /\ \A i \in ev'.reads.map_args \cup ev'.reads.arg :
                    0 <= i /\ i < SYSCALL_ARG_NUM
             /\ \A i \in ev'.reads.arg :
                    /\ entered[t].nr = CtxOf(t).nr
                    /\ i \in entered[t].wrote
                    /\ CtxOf(t).arg[i] = entered[t].arg[i]
             /\ ( /\ CtxOf(t).nr >= 0
                  /\ Captures(CtxOf(t).nr)
                  /\ SysDesc(CtxOf(t).nr).post = NULL
                  /\ ev'.inp.ret >= 0 )
                => ev'.reads.map_args =
                        { i \in ArgIdx : i < SysDesc(CtxOf(t).nr).nargs }
      ]_vars

\* C20's case: the default exit policy ran for a syscall that declares six
\* arguments and read the last slot of the argument array
C20_Witness ==
    /\ ev.op = "sysexit_save"
    /\ SysDesc(heap[slot[ev.tid]].nr).nargs = SYSCALL_ARG_NUM
    /\ (SYSCALL_ARG_NUM - 1) \in ev.reads.arg
    /\ ev.clrn # <<>>

====
